---- MODULE Spec2Model ----
(***************************************************************************)
(* LocalMind AI backend: the POST /analyze handler of main.py, run by a    *)
(* single-threaded asyncio event loop.  Each request is a coroutine; the   *)
(* code between two awaits is one atomic step of the loop.  The call       *)
(* model.generate_content(inputs) is a synchronous call made from inside   *)
(* the coroutine, so the loop thread is held from the call to its return.  *)
(*                                                                         *)
(* Python strings that are built by concatenation or formatting are        *)
(* modelled as sequences of string segments.                               *)
(***************************************************************************)
EXTENDS Integers, Sequences, FiniteSets, TLC

VARIABLES API_KEY, pc, req, inputs, e, reply, calls, resp, running

vars == <<API_KEY, pc, req, inputs, e, reply, calls, resp, running>>

(* ---------------------------------------------------------------- bounds *)

\* number of requests that can be in flight at the same time
NumRequests == 2

AllRequests == 1..NumRequests

\* a single connection used to drive the handler through every form
Solo == {1}

NoRequest == 0

(* ------------------------------------------------------- Python values *)

None == "<None>"

\* truth value of an Optional[str]: None and "" are false
Falsy(x) == x = None \/ x = ""

\* Python's  x or d
Or(x, d) == IF Falsy(x) THEN d ELSE x

\* an absent upload (the File(None) default)
NoUpload == [content_type |-> None, data |-> None]

\* truth value of an Optional[UploadFile]: an UploadFile object is true
HasUpload(u) == u # NoUpload

(* ----------------------------------------------------- request inputs *)

PngBytes == "<PNG bytes>"
NotAnImage == "not an image"
M4aBytes == "<m4a bytes>"

\* byte strings PIL can identify as an image
DecodableImages == {PngBytes}

Texts == {None, "", "What is the capital of India?"}
Locations == {None, "", "New Delhi", "Unknown India Location"}
LanguageCodes == {None, "hi"}
Images == {NoUpload,
           [content_type |-> "image/png", data |-> PngBytes],
           [content_type |-> "image/png", data |-> NotAnImage]}
Audios == {NoUpload,
           [content_type |-> "audio/wav", data |-> M4aBytes],
           [content_type |-> None, data |-> M4aBytes]}

\* every multipart form a client can post
Forms == [text : Texts, image : Images, audio : Audios,
          location : Locations, language_code : LanguageCodes]

\* the forms posted by the concurrent clients
ConcurrentForms ==
    { f \in Forms :
        /\ f.text \in {None, "What is the capital of India?"}
        /\ f.location = (IF f.text = None THEN None ELSE "New Delhi")
        /\ f.language_code = None
        /\ f.audio.content_type = None
        /\ f.image # NoUpload => f.text = None }

\* texts the model can answer with, and errors the SDK can raise
ModelTexts == {"New Delhi", "Auto fare is about 50 rupees"}
ModelErrors == {"429 Resource has been exhausted"}
TextErrors == {"response.text requires a valid Part"}

\* values the environment variable can have at startup
ApiKeys == {None, "", "AIza-key"}

(* -------------------------------------------------- handler parameters *)

\* the Form(...) / File(...) defaults of the signature
Params(form) ==
    [form EXCEPT !.language_code = IF @ = None THEN "en" ELSE @]

NoParams == [text |-> None, image |-> NoUpload, audio |-> NoUpload,
             location |-> None, language_code |-> None]

(* ----------------------------------------------------- prompt assembly *)

\* base_prompt, cut at its three replacement fields
base_prompt ==
    << "You are LocalMind AI, a hyperlocal assistant for India. Your goal is to provide real-time, actionable intelligence based on the user's location and input. CONTEXT: - Location: ",
       "{location}",
       " - User's Language Preference: ",
       "{language_code}",
       " (Respond in this language OR English if unsure, but prefer mixed/colloquial if appropriate like Hinglish). INSTRUCTIONS: 1. Analyze the input (image, audio, text). 2. Identify specific local details (shops, signs, food, transport, safety). 3. Provide estimated prices, safety tips, or transport options if relevant. 4. Be CONCISE and ACTIONABLE. No long wiki-style answers. 5. If the user asks about a price (e.g., auto rickshaw), give a realistic estimate for that Indian city. USER INPUT: ",
       "{user_text}",
       " " >>

\* str.format: every replacement field is replaced by its keyword argument,
\* the literal text is copied
Format(template, kw) ==
    [i \in DOMAIN template |->
        IF template[i] = "{location}" THEN kw.location
        ELSE IF template[i] = "{language_code}" THEN kw.language_code
        ELSE IF template[i] = "{user_text}" THEN kw.user_text
        ELSE template[i]]

\* the fallbacks applied to None only, an empty string is kept
FormatPromptNoneOnly(location, language_code, text) ==
    Format(base_prompt,
           [location |-> IF location = None THEN "Unknown India Location" ELSE location,
            language_code |-> language_code,
            user_text |-> IF text = None THEN "Analyze my input." ELSE text])

FormatPrompt(location, language_code, text) ==
    Format(base_prompt,
           [location |-> Or(location, "Unknown India Location"),
            language_code |-> language_code,
            user_text |-> Or(text, "Analyze my input.")])

(* ------------------------------------------------------ payload parts *)

TextPart(prompt) == [kind |-> "text", value |-> prompt]
ImagePart(content) == [kind |-> "image", value |-> content]
AudioPart(audio) ==
    [kind |-> "audio",
     value |-> [mime_type |-> Or(audio.content_type, "audio/mp4"),
                data |-> audio.data]]

\* inputs.insert(0, part)
PrependPart(inp, part) == <<part>> \o inp

\* inputs.append(part)
AppendPart(inp, part) == Append(inp, part)

\* a module-level list that is not cleared: the call starts from what
\* another call in flight has put in it
GlobalInputs(r) ==
    IF \E o \in AllRequests \ {r} : inputs[o] # <<>>
    THEN inputs[CHOOSE o \in AllRequests \ {r} : inputs[o] # <<>>]
    ELSE <<>>

\* inputs = []: a fresh list, local to the call
NewInputs(r) == <<>>

(* --------------------------------------------------------- exceptions *)

NoExc == [type |-> "None", status_code |-> 0, detail |-> None]

HTTPException(status_code, detail) ==
    [type |-> "HTTPException", status_code |-> status_code, detail |-> detail]

\* an error raised by the SDK: str() of it is its message
SdkError(msg) == [type |-> "Exception", status_code |-> 0, detail |-> msg]

\* str(e): Starlette's HTTPException prints "<status_code>: <detail>"
Str(exc) ==
    IF exc.type = "HTTPException"
    THEN <<ToString(exc.status_code), ": ", exc.detail>>
    ELSE <<exc.detail>>

\* the two checks in the other order
ValidateInputFirst(key, p) ==
    IF Falsy(p.text) /\ ~HasUpload(p.image) /\ ~HasUpload(p.audio)
    THEN HTTPException(400, "Either text, image, or audio must be provided.")
    ELSE IF Falsy(key)
    THEN HTTPException(500, "Server misconfiguration: API Key missing.")
    ELSE NoExc

\* the credential check alone
ValidateKeyOnly(key, p) ==
    IF Falsy(key)
    THEN HTTPException(500, "Server misconfiguration: API Key missing.")
    ELSE NoExc

\* the two checks at the head of the handler, in their order
Validate(key, p) ==
    IF Falsy(key)
    THEN HTTPException(500, "Server misconfiguration: API Key missing.")
    ELSE IF Falsy(p.text) /\ ~HasUpload(p.image) /\ ~HasUpload(p.audio)
    THEN HTTPException(400, "Either text, image, or audio must be provided.")
    ELSE NoExc

(* ---------------------------------------------------------- responses *)

NoResponse == [status_code |-> 0, body |-> [detail |-> <<>>]]

NoReply == [kind |-> "none", value |-> None]

\* what FastAPI sends for a raised HTTPException
ErrorResponse(status_code, detail) ==
    [status_code |-> status_code, body |-> [detail |-> detail]]

\* the location of the prompt echoed instead of the location received
JSONResponsePromptLocation(response_text, location) ==
    [status_code |-> 200,
     body |-> [response |-> response_text,
               location_context |-> Or(location, "Unknown India Location")]]

\* JSONResponse(content={...}), status 200
JSONResponse(response_text, location) ==
    [status_code |-> 200,
     body |-> [response |-> response_text, location_context |-> location]]

(* ------------------------------------------------------------- state *)

Init ==
    /\ API_KEY \in ApiKeys
    /\ pc = [r \in AllRequests |-> "idle"]
    /\ req = [r \in AllRequests |-> NoParams]
    /\ inputs = [r \in AllRequests |-> <<>>]
    /\ e = [r \in AllRequests |-> NoExc]
    /\ reply = [r \in AllRequests |-> NoReply]
    /\ calls = [r \in AllRequests |-> 0]
    /\ resp = [r \in AllRequests |-> NoResponse]
    /\ running = NoRequest

(* ------------------------------------------------ steps of the handler *)

\* except Exception as e: raise HTTPException(status_code=500, detail=str(e))
Except(r, exc) ==
    /\ e' = [e EXCEPT ![r] = exc]
    /\ resp' = [resp EXCEPT ![r] = ErrorResponse(500, Str(exc))]
    /\ pc' = [pc EXCEPT ![r] = "done"]
    /\ running' = NoRequest

\* the coroutine yields to the event loop at an await
Suspend(r, at, inp) ==
    /\ inputs' = [inputs EXCEPT ![r] = inp]
    /\ pc' = [pc EXCEPT ![r] = at]
    /\ UNCHANGED <<API_KEY, req, e, reply, calls, resp, running>>

\* response = model.generate_content(inputs): a synchronous call, the
\* event loop thread stays inside it until it returns or raises
CallGemini(r, inp) ==
    /\ inputs' = [inputs EXCEPT ![r] = inp]
    /\ calls' = [calls EXCEPT ![r] = @ + 1]
    /\ pc' = [pc EXCEPT ![r] = "generate_content"]
    /\ running' = r
    /\ UNCHANGED <<API_KEY, req, e, reply, resp>>

\* if audio: audio_content = await audio.read()
ProcessAudio(r, inp) ==
    IF HasUpload(req[r].audio)
    THEN Suspend(r, "await_audio_read", inp)
    ELSE CallGemini(r, inp)

\* the framework has parsed a multipart form and schedules analyze(...)
Arrive(r, form) ==
    /\ running = NoRequest
    /\ pc[r] \in {"idle", "done"}
    /\ req' = [req EXCEPT ![r] = Params(form)]
    /\ pc' = [pc EXCEPT ![r] = "start"]
    /\ inputs' = [inputs EXCEPT ![r] = <<>>]
    /\ e' = [e EXCEPT ![r] = NoExc]
    /\ reply' = [reply EXCEPT ![r] = NoReply]
    /\ calls' = [calls EXCEPT ![r] = 0]
    /\ resp' = [resp EXCEPT ![r] = NoResponse]
    /\ UNCHANGED <<API_KEY, running>>

\* from the head of the handler to its first await
Begin(r) ==
    /\ running = NoRequest
    /\ pc[r] = "start"
    /\ LET p == req[r]
           exc == Validate(API_KEY, p)
           inp == AppendPart(NewInputs(r), TextPart(FormatPrompt(p.location, p.language_code, p.text)))
       IN  IF exc.type # "None"
           THEN /\ Except(r, exc)
                /\ UNCHANGED <<API_KEY, req, inputs, reply, calls>>
           ELSE IF HasUpload(p.image)
           THEN Suspend(r, "await_image_read", inp)
           ELSE ProcessAudio(r, inp)

\* content = await image.read() resumes; Image.open(io.BytesIO(content))
ImageRead(r) ==
    /\ running = NoRequest
    /\ pc[r] = "await_image_read"
    /\ LET content == req[r].image.data
       IN  IF content \in DecodableImages
           THEN ProcessAudio(r, AppendPart(inputs[r], ImagePart(content)))
           ELSE /\ Except(r, HTTPException(400, "Invalid image file."))
                /\ UNCHANGED <<API_KEY, req, inputs, reply, calls>>

\* audio_content = await audio.read() resumes
AudioRead(r) ==
    /\ running = NoRequest
    /\ pc[r] = "await_audio_read"
    /\ CallGemini(r, AppendPart(inputs[r], AudioPart(req[r].audio)))

\* generate_content returns and response.text is the text t
GenerateReturn(r, t) ==
    /\ running = r
    /\ pc[r] = "generate_content"
    /\ reply' = [reply EXCEPT ![r] = [kind |-> "text", value |-> t]]
    /\ resp' = [resp EXCEPT ![r] = JSONResponse(t, req[r].location)]
    /\ pc' = [pc EXCEPT ![r] = "done"]
    /\ running' = NoRequest
    /\ UNCHANGED <<API_KEY, req, inputs, e, calls>>

\* generate_content raises and is called again
GenerateRaiseRetry(r, err) ==
    /\ running = r
    /\ pc[r] = "generate_content"
    /\ calls[r] < 3
    /\ calls' = [calls EXCEPT ![r] = @ + 1]
    /\ UNCHANGED <<API_KEY, pc, req, inputs, e, reply, resp, running>>

\* generate_content raises
GenerateRaise(r, err) ==
    /\ running = r
    /\ pc[r] = "generate_content"
    /\ reply' = [reply EXCEPT ![r] = [kind |-> "error", value |-> err]]
    /\ Except(r, SdkError(err))
    /\ UNCHANGED <<API_KEY, req, inputs, calls>>

\* generate_content returns a response without text: response.text raises
ResponseTextRaise(r, err) ==
    /\ running = r
    /\ pc[r] = "generate_content"
    /\ reply' = [reply EXCEPT ![r] = [kind |-> "no_text", value |-> err]]
    /\ Except(r, SdkError(err))
    /\ UNCHANGED <<API_KEY, req, inputs, calls>>

(* ----------------------------------------------------- specifications *)

\* concurrent clients
Next ==
    \/ \E r \in AllRequests, form \in ConcurrentForms : Arrive(r, form)
    \/ \E r \in AllRequests : Begin(r)
    \/ \E r \in AllRequests : ImageRead(r)
    \/ \E r \in AllRequests : AudioRead(r)
    \/ \E r \in AllRequests, t \in ModelTexts : GenerateReturn(r, t)
    \/ \E r \in AllRequests, err \in ModelErrors : GenerateRaise(r, err)
    \/ \E r \in AllRequests, err \in TextErrors : ResponseTextRaise(r, err)

Spec == Init /\ [][Next]_vars

\* one client posting every form, one request after the other
NextForms ==
    \/ \E r \in Solo, form \in Forms : Arrive(r, form)
    \/ \E r \in Solo : Begin(r)
    \/ \E r \in Solo : ImageRead(r)
    \/ \E r \in Solo : AudioRead(r)
    \/ \E r \in Solo, t \in ModelTexts : GenerateReturn(r, t)
    \/ \E r \in Solo, err \in ModelErrors : GenerateRaise(r, err)
    \/ \E r \in Solo, err \in TextErrors : ResponseTextRaise(r, err)

SpecForms == Init /\ [][NextForms]_vars

TypeOK ==
    /\ API_KEY \in ApiKeys
    /\ running \in AllRequests \cup {NoRequest}
    /\ \A r \in AllRequests :
        /\ pc[r] \in {"idle", "start", "await_image_read", "await_audio_read",
                      "generate_content", "done"}
        /\ calls[r] \in 0..1
        /\ Len(inputs[r]) \in 0..3

(* ------------------------------------------------------------- claims *)

\* the detail string contains msg
Mentions(detail, msg) == \E i \in DOMAIN detail : detail[i] = msg

NoModality(p) == Falsy(p.text) /\ p.image = NoUpload /\ p.audio = NoUpload

BadImage(p) == p.image # NoUpload /\ p.image.data \notin DecodableImages

\* C1: with the credential present, a request without text, image and audio
\* is answered with status 400 and a detail that names the missing input.
C1_MissingInputIs400 ==
    \A r \in AllRequests :
        (pc[r] = "done" /\ ~Falsy(API_KEY) /\ NoModality(req[r]))
        => /\ resp[r].status_code = 400
           /\ Mentions(resp[r].body.detail,
                       "Either text, image, or audio must be provided.")

\* C2: with the credential present, a request whose image bytes cannot be
\* decoded is answered with status 400 and a detail that names the invalid
\* image, whatever its other fields are.
C2_InvalidImageIs400 ==
    \A r \in AllRequests :
        (pc[r] = "done" /\ ~Falsy(API_KEY) /\ BadImage(req[r]))
        => /\ resp[r].status_code = 400
           /\ Mentions(resp[r].body.detail, "Invalid image file.")

\* C3: without a credential every request ends with status 500 and a detail
\* that names the missing API key; it is classified before the missing-input
\* and invalid-image checks, and nothing after the first check runs.
C3_MissingCredentialIs500 ==
    Falsy(API_KEY) =>
        \A r \in AllRequests :
            /\ pc[r] \in {"idle", "start", "done"}
            /\ pc[r] = "done" =>
                /\ resp[r].status_code = 500
                /\ Mentions(resp[r].body.detail,
                            "Server misconfiguration: API Key missing.")
                /\ ~Mentions(resp[r].body.detail,
                             "Either text, image, or audio must be provided.")
                /\ ~Mentions(resp[r].body.detail, "Invalid image file.")

C3_Witness ==
    /\ Falsy(API_KEY)
    /\ \E r \in AllRequests : pc[r] = "done" /\ NoModality(req[r])

\* C4: when the model call raises, the request ends with status 500 and the
\* stringified error as detail, and generate_content was invoked once only.
C4_ModelErrorIs500NoRetry ==
    \A r \in AllRequests :
        /\ calls[r] <= 1
        /\ (pc[r] = "done" /\ reply[r].kind \in {"error", "no_text"})
           => /\ resp[r].status_code = 500
              /\ resp[r].body.detail = <<reply[r].value>>
              /\ calls[r] = 1

C4_Witness ==
    \E r \in AllRequests :
        pc[r] = "done" /\ reply[r].kind = "error" /\ calls[r] = 1

\* C5: generate_content is invoked only with the credential present, at
\* least one modality supplied and the image, if any, decoded; a request
\* that ended in a validation or credential error never invoked the model.
C5_RejectedBeforeModelCall ==
    \A r \in AllRequests :
        /\ calls[r] > 0 =>
            /\ ~Falsy(API_KEY)
            /\ ~NoModality(req[r])
            /\ ~BadImage(req[r])
        /\ (pc[r] = "done" /\ e[r].type = "HTTPException") =>
            /\ calls[r] = 0
            /\ reply[r] = NoReply

C5_Witness ==
    \E r \in AllRequests :
        /\ pc[r] = "done"
        /\ BadImage(req[r])
        /\ e[r].type = "HTTPException"
        /\ calls[r] = 0

\* C6: on success the response is 200 {response: T, location_context: L}
\* with T the model's text and L the location field as received (None when
\* absent); the prompt's fallback location is not substituted into it.
C6_SuccessEchoesLocation ==
    \A r \in AllRequests :
        (pc[r] = "done" /\ reply[r].kind = "text")
        => /\ ~Falsy(API_KEY) /\ ~NoModality(req[r]) /\ ~BadImage(req[r])
           /\ resp[r].status_code = 200
           /\ resp[r].body.response = reply[r].value
           /\ resp[r].body.location_context = req[r].location
           /\ Falsy(req[r].location) =>
                resp[r].body.location_context # "Unknown India Location"

C6_Witness ==
    \E r \in AllRequests :
        /\ pc[r] = "done"
        /\ reply[r].kind = "text"
        /\ req[r].location = None
        /\ resp[r].status_code = 200

\* C7: the payload handed to the model starts with the text block, also
\* when the request has no text; then the image, if any; then the audio,
\* if any; one to three parts, at most one of each kind.
C7_PayloadOrder ==
    \A r \in AllRequests :
        calls[r] > 0 =>
            LET inp == inputs[r]
                kinds == [i \in DOMAIN inp |-> inp[i].kind]
                hasImage == req[r].image # NoUpload
                hasAudio == req[r].audio # NoUpload
            IN  /\ Len(inp) \in 1..3
                /\ kinds = (IF hasImage /\ hasAudio THEN <<"text", "image", "audio">>
                            ELSE IF hasImage THEN <<"text", "image">>
                            ELSE IF hasAudio THEN <<"text", "audio">>
                            ELSE <<"text">>)
                /\ Len(inp[1].value) = Len(base_prompt)

C7_Witness ==
    \E r \in AllRequests :
        /\ calls[r] > 0
        /\ Falsy(req[r].text)
        /\ Len(inputs[r]) = 3

\* C8: while a request is inside the model call, every other request that
\* is ready to start or to resume can take its next step.
C8_ModelCallDoesNotBlockOthers ==
    \A a, b \in AllRequests :
        (a # b /\ pc[a] = "generate_content" /\ pc[b] # "generate_content")
        => ENABLED (\/ \E form \in ConcurrentForms : Arrive(b, form)
                    \/ Begin(b)
                    \/ ImageRead(b)
                    \/ AudioRead(b))

\* C9: no request writes API_KEY, and under every interleaving a request's
\* payload and response are determined by its own fields, API_KEY and the
\* model's reply to it.
C9_NoSharedMutableState ==
    /\ [][API_KEY' = API_KEY]_vars
    /\ [](\A r \in AllRequests :
            LET p == req[r]
                payload ==
                    <<TextPart(FormatPrompt(p.location, p.language_code, p.text))>>
                    \o (IF p.image # NoUpload THEN <<ImagePart(p.image.data)>> ELSE <<>>)
                    \o (IF p.audio # NoUpload THEN <<AudioPart(p.audio)>> ELSE <<>>)
                outcome ==
                    IF Falsy(API_KEY)
                    THEN ErrorResponse(500, <<"500", ": ", "Server misconfiguration: API Key missing.">>)
                    ELSE IF NoModality(p)
                    THEN ErrorResponse(500, <<"400", ": ", "Either text, image, or audio must be provided.">>)
                    ELSE IF BadImage(p)
                    THEN ErrorResponse(500, <<"400", ": ", "Invalid image file.">>)
                    ELSE IF reply[r].kind = "text"
                    THEN JSONResponse(reply[r].value, p.location)
                    ELSE ErrorResponse(500, <<reply[r].value>>)
            IN  /\ Len(inputs[r]) <= Len(payload)
                /\ inputs[r] = SubSeq(payload, 1, Len(inputs[r]))
                /\ calls[r] > 0 => inputs[r] = payload
                /\ pc[r] = "done" => resp[r] = outcome
                /\ pc[r] # "done" => resp[r] = NoResponse)

C9_Witness ==
    \E a, b \in AllRequests :
        /\ pc[a] = "generate_content"
        /\ pc[b] = "await_audio_read"
        /\ req[a] # req[b]
        /\ Len(inputs[b]) = 2

\* C10: the text block is the template with location (or "Unknown India
\* Location" when absent or empty), language_code, and text (or "Analyze my
\* input." when absent or empty) put in verbatim; it depends on nothing else.
C10_PromptIsTemplate ==
    \A r \in AllRequests :
        Len(inputs[r]) > 0 =>
            LET prompt == inputs[r][1].value
                p == req[r]
            IN  /\ Len(prompt) = 7
                /\ \A i \in {1, 3, 5, 7} : prompt[i] = base_prompt[i]
                /\ prompt[2] = (IF p.location \in {None, ""}
                                THEN "Unknown India Location" ELSE p.location)
                /\ prompt[4] = p.language_code
                /\ prompt[6] = (IF p.text \in {None, ""}
                                THEN "Analyze my input." ELSE p.text)

C10_Witness ==
    \E r \in AllRequests :
        /\ Len(inputs[r]) > 0
        /\ req[r].location = ""
        /\ req[r].text = ""
        /\ req[r].language_code = "hi"

====
